---------------------------- MODULE Spec2Model ----------------------------
(***************************************************************************)
(* Model of the chemex CEST profile engine:                                *)
(*   src/chemex/experiments/cest/coupled/2st_fast.py  (class Profile)      *)
(*   src/chemex/bases/two_state/ixyzsz.py             (compute_liouvillian)*)
(*   src/chemex/reading.py                            (read_par)           *)
(*                                                                         *)
(* Floating point numbers are modelled as exact rationals [n, d] in lowest *)
(* terms; d = 0 stands for the non-finite values numpy produces on a       *)
(* division by zero (0/0 -> nan, x/0 -> +-inf).  A Python exception is the *)
(* field exc of a result record.                                           *)
(***************************************************************************)
EXTENDS Integers, Sequences, FiniteSets, TLC

VARIABLES
    \* ---- Profile instance (2st_fast.py) ----
    constructed,          \* TRUE once Profile.__init__ has returned
    b1_offsets,           \* self.b1_offsets : array of offsets (Hz)
    val,                  \* self.val        : measured intensities
    err,                  \* self.err        : intensity uncertainties
    on_resonance_filter,  \* self.on_resonance_filter
    multiplet,            \* self.multiplet  : sequence of [j, weight]
    numpy_legacy,         \* the installed numpy predates 1.13 (boolean indexing)
    cache,                \* lru_cache(5) wrapped around _calculate_profile
    ret,                  \* the last method call and what it returned
    recent,               \* history: parameter keys by last use, oldest first
    \* ---- _calculate_scale taken alone ----
    cal,                  \* the simulated array handed to _calculate_scale
    scale,                \* what _calculate_scale returned
    \* ---- compute_liouvillian (ixyzsz.py) ----
    kwargs,               \* keyword arguments of the last call
    liouvillian,          \* the matrix it returned
    \* ---- read_par (reading.py) ----
    par_indexes,          \* fitting parameter name -> index into par
    par,                  \* the array of fitting parameter values
    par_fixed,            \* fixed parameter name -> value or None
    starting_parameters,  \* (name tokens, value) pairs read from the file
    par_none,             \* read_par's set of parameters found unset
    rp_i,                 \* the entry of starting_parameters applied next
    rp_pc                 \* where the fit setup is: "idle", "created", "apply",
                          \* "returned", "exit"

vars == <<constructed, b1_offsets, val, err, on_resonance_filter, multiplet,
          numpy_legacy, cache, ret, recent, cal, scale, kwargs, liouvillian,
          par_indexes, par, par_fixed, starting_parameters, par_none, rp_i,
          rp_pc>>

profile_vars == <<constructed, b1_offsets, val, err, on_resonance_filter,
                  multiplet, numpy_legacy, cache, ret, recent>>
scale_vars == <<cal, scale>>
liouvillian_vars == <<kwargs, liouvillian>>
read_par_vars == <<par_indexes, par, par_fixed, starting_parameters,
                   par_none, rp_i, rp_pc>>

-----------------------------------------------------------------------------
(* Bounds of the model *)

MaxPoints == 3      \* most data points of a constructed Profile
ExtraTrials == 1    \* parameter sets tried beyond the capacity of the cache
MaxLen == 2         \* longest arrays handed to _calculate_scale alone
MaxValue == 3       \* largest parameter value handed to compute_liouvillian
MaxEntries == 2     \* most entries read from a parameter file

-----------------------------------------------------------------------------
(* Exact rational arithmetic standing for float64 *)

Abs(x) == IF x < 0 THEN -x ELSE x
Sign(x) == IF x < 0 THEN -1 ELSE IF x > 0 THEN 1 ELSE 0

RECURSIVE Gcd(_, _)
Gcd(a, b) == IF b = 0 THEN a ELSE Gcd(b, a % b)

\* n/d in lowest terms with d > 0; a zero denominator gives nan or +-inf.
Rat(n, d) ==
    IF d = 0 THEN [n |-> Sign(n), d |-> 0]
    ELSE LET g == Gcd(Abs(n), Abs(d))
             s == Sign(d)
         IN  [n |-> s * (n \div g), d |-> s * (d \div g)]

R(i) == [n |-> i, d |-> 1]
NaN == [n |-> 0, d |-> 0]
IsFinite(a) == a.d # 0
IsNaN(a) == a.d = 0 /\ a.n = 0

Rational == [n : Int, d : Int]

\* Evaluate x once and hand its value to F (TLC evaluates an operator's
\* argument anew at every use).
Let(x, F(_)) == CHOOSE y \in {F(v) : v \in {x}} : TRUE

RNeg(a) == [n |-> -a.n, d |-> a.d]

AddF[a \in Rational, b \in Rational] ==
    IF a.d = 0 \/ b.d = 0
    THEN IF IsNaN(a) \/ IsNaN(b) THEN NaN
         ELSE IF a.d = 0 /\ b.d = 0 /\ a.n # b.n THEN NaN
         ELSE IF a.d = 0 THEN a ELSE b
    ELSE LET g == Gcd(a.d, b.d)
         IN  Rat(a.n * (b.d \div g) + b.n * (a.d \div g), a.d * (b.d \div g))

RAdd(a, b) == AddF[a, b]
RSub(a, b) == AddF[a, RNeg(b)]

MulF[a \in Rational, b \in Rational] ==
    IF a.d = 0 \/ b.d = 0
    THEN IF IsNaN(a) \/ IsNaN(b) \/ a.n = 0 \/ b.n = 0 THEN NaN
         ELSE [n |-> Sign(a.n) * Sign(b.n), d |-> 0]
    ELSE IF a.n = 0 \/ b.n = 0 THEN R(0)
    ELSE LET g1 == Gcd(Abs(a.n), b.d)
             g2 == Gcd(Abs(b.n), a.d)
         IN  [n |-> (a.n \div g1) * (b.n \div g2),
              d |-> (a.d \div g2) * (b.d \div g1)]

RMul(a, b) == MulF[a, b]

\* numpy true division: x/0 is +-inf, 0/0 is nan.
DivF[a \in Rational, b \in Rational] ==
    IF IsNaN(a) \/ IsNaN(b) THEN NaN
    ELSE IF b.d = 0 THEN (IF a.d = 0 THEN NaN ELSE R(0))
    ELSE IF b.n = 0 THEN (IF a.n = 0 THEN NaN ELSE [n |-> Sign(a.n), d |-> 0])
    ELSE IF a.d = 0 THEN [n |-> Sign(a.n) * Sign(b.n), d |-> 0]
    ELSE MulF[a, Rat(b.d * Sign(b.n), Abs(b.n))]

RDiv(a, b) == DivF[a, b]

RAbs(a) == [n |-> Abs(a.n), d |-> a.d]

\* a > b as numpy compares floats: any comparison with nan is False.
GtF[a \in Rational, b \in Rational] ==
    IF IsNaN(a) \/ IsNaN(b) THEN FALSE
    ELSE IF a.d = 0 THEN a.n > 0 /\ ~(b.d = 0 /\ b.n > 0)
    ELSE IF b.d = 0 THEN b.n < 0
    ELSE a.n * b.d > b.n * a.d

RGt(a, b) == GtF[a, b]
RLe(a, b) == Let(<<a, b>>, LAMBDA x : ~IsNaN(x[1]) /\ ~IsNaN(x[2]) /\ ~GtF[x[1], x[2]])

-----------------------------------------------------------------------------
(* numpy arrays: sequences of rationals, 1-d broadcasting *)

OK(v) == [exc |-> "", v |-> v]
Raise(e) == [exc |-> e, v |-> <<>>]

\* Two 1-d shapes broadcast when they are equal or one of them is 1.
Broadcastable(m, n) == m = n \/ m = 1 \/ n = 1
BLen(m, n) == IF m = 1 THEN n ELSE m
At(a, i) == IF Len(a) = 1 THEN a[1] ELSE a[i]

\* a * b, a / b and a - b of two arrays whose shapes broadcast
ArrMul(a, b) ==
    Let(<<a, b>>, LAMBDA x :
        [i \in 1..BLen(Len(x[1]), Len(x[2])) |-> RMul(At(x[1], i), At(x[2], i))])
ArrDiv(a, b) ==
    Let(<<a, b>>, LAMBDA x :
        [i \in 1..BLen(Len(x[1]), Len(x[2])) |-> RDiv(At(x[1], i), At(x[2], i))])
ArrSub(a, b) ==
    Let(<<a, b>>, LAMBDA x :
        [i \in 1..BLen(Len(x[1]), Len(x[2])) |-> RSub(At(x[1], i), At(x[2], i))])

Square(a) == Let(a, LAMBDA x : [i \in 1..Len(x) |-> RMul(x[i], x[i])])
Scaled(a, s) == Let(<<a, s>>, LAMBDA x : [i \in 1..Len(x[1]) |-> RMul(x[1][i], x[2])])

\* a[mask] for a boolean mask of the same length
RECURSIVE Compress(_, _)
Compress(a, mask) ==
    IF a = <<>> THEN <<>>
    ELSE (IF Head(mask) THEN <<Head(a)>> ELSE <<>>) \o Compress(Tail(a), Tail(mask))

\* Python's builtin sum(): 0 + a[1] + a[2] + ...
RECURSIVE SumTo(_, _)
SumTo(a, n) == IF n = 0 THEN R(0) ELSE RAdd(SumTo(a, n - 1), a[n])
PySum(a) == Let(a, LAMBDA x : SumTo(x, Len(x)))

-----------------------------------------------------------------------------
(* Experiment details and constants of one Profile (2st_fast.py __init__) *)

two_pi == 6              \* 2.0 * np.pi, an integer stand-in for the unit factor
FarOffResonance == -10000 \* the sentinel -1.0e+04 of _calculate_profile
maxsize == 5             \* lru_cache(5)
carrier == 0             \* exp_details['carrier'] (ppm)
h_larmor_frq == 10       \* exp_details['h_larmor_frq']
b1_frq == 1              \* exp_details['b1_frq'] (Hz)
time_t1 == 1             \* exp_details['time_t1'] (s)
xi_ratio == Rat(1, 10)   \* constants.xi_ratio[atom]

ppm_to_rads == RMul(R(h_larmor_frq * two_pi), xi_ratio)

\* chemex.experiments.cest.util.calc_multiplet: the lines (shift j, weight)
\* of the resonance: one line, or the two lines of a doublet.
Singlet == << [j |-> R(0), weight |-> R(1)] >>
Doublet == << [j |-> R(-3), weight |-> Rat(1, 2)], [j |-> R(3), weight |-> Rat(1, 2)] >>
Multiplets == {Singlet, Doublet}

\* The values check_par can give on_resonance_filter (default 0.0).
FilterWidths == {R(0), R(2)}

-----------------------------------------------------------------------------
(* External numerics consumed by _calculate_profile *)

\* chemex.bases.util.calculate_shift_ex_2st: the exchange-induced shift of
\* state A, here the population-weighted shift of the fast-exchange limit.
calculate_shift_2st(pb, kex_ab, domega_i_ab, lambda_i_a, lambda_i_b) ==
    IF kex_ab.n = 0 THEN R(0) ELSE RMul(pb, domega_i_ab)

\* Saturation of a line at angular offset w by a field omega1 with
\* linewidth lambda: 0 on resonance, 1 outside the dip.
Saturation(w, omega1, lambda) ==
    Let(<<RAbs(w), RAdd(omega1, RAbs(lambda))>>, LAMBDA x :
        IF RGt(x[2], x[1]) THEN RDiv(x[1], x[2]) ELSE R(1))

\* compute_liouvillian followed by linalg.eig / linalg.inv and the
\* propagation Re(vr . exp(s t) . vri . magz_eq)[Iz(a)] of one multiplet
\* line.  A deterministic stand-in with the dependencies of the propagator:
\* a dip at the resonance of state A, a dip of depth pb kex/(kex + omega1)
\* at the resonance of state B, and longitudinal decay during time_t1.
LineIntensity(pb, kex_ab, lambda_i_a, rho_i_a, omega_i_a, lambda_i_b, rho_i_b, omega_i_b, omega1x_i, magz_eq) ==
    LET depth_b == RMul(pb, RDiv(kex_ab, RAdd(kex_ab, omega1x_i)))
        dip_a == Saturation(omega_i_a, omega1x_i, lambda_i_a)
        dip_b == RSub(R(1), RMul(depth_b,
                     RSub(R(1), Saturation(omega_i_b, omega1x_i, lambda_i_b))))
        decay == RDiv(R(1), RAdd(R(1), RMul(rho_i_a, R(time_t1))))
    IN  RMul(RMul(magz_eq[1], dip_a), RMul(dip_b, decay))

-----------------------------------------------------------------------------
(* Profile._calculate_profile *)

\* Mutant: the lines of the multiplet added up without their weights
RECURSIVE MultipletSumUnweighted(_, _, _, _, _, _)
MultipletSumUnweighted(lines, p, omega_i_a, domega_i_ab, omega1x_i, magz_eq) ==
    IF lines = <<>> THEN R(0)
    ELSE LET n == Len(lines)
             j == lines[n].j
             lambda_i_b == RAdd(p.lambda_i_a, p.dlambda_i_ab)
         IN  RAdd(MultipletSumUnweighted(SubSeq(lines, 1, n - 1), p, omega_i_a,
                                         domega_i_ab, omega1x_i, magz_eq),
                  LineIntensity(p.pb, p.kex_ab, p.lambda_i_a, p.rho_i_a,
                                RAdd(omega_i_a, j),
                                lambda_i_b, p.rho_i_a,
                                RAdd(RAdd(omega_i_a, domega_i_ab), j),
                                omega1x_i, magz_eq))

\* The inner loop over the multiplet lines (lines 168-191).
RECURSIVE MultipletSum(_, _, _, _, _, _)
MultipletSum(lines, p, omega_i_a, domega_i_ab, omega1x_i, magz_eq) ==
    IF lines = <<>> THEN R(0)
    ELSE LET n == Len(lines)
             j == lines[n].j
             weight == lines[n].weight
             lambda_i_b == RAdd(p.lambda_i_a, p.dlambda_i_ab)
             magz_a_ == LineIntensity(p.pb, p.kex_ab, p.lambda_i_a, p.rho_i_a,
                                      RAdd(omega_i_a, j),
                                      lambda_i_b, p.rho_i_a,
                                      RAdd(RAdd(omega_i_a, domega_i_ab), j),
                                      omega1x_i, magz_eq)
         IN  RAdd(MultipletSum(SubSeq(lines, 1, n - 1), p, omega_i_a,
                               domega_i_ab, omega1x_i, magz_eq),
                  RMul(weight, magz_a_))

\* Mutant: the sentinel test written with < instead of <=.
IsFarOffResonanceStrict(b1_offset) == RGt(R(FarOffResonance), b1_offset)

\* The test of line 162: the offset is the far-off-resonance reference.
IsFarOffResonance(b1_offset) == RLe(b1_offset, R(FarOffResonance))

\* How many Liouvillians one pass of the loop builds and diagonalizes.
PointDiagonalizations(b1_offset, lines) ==
    IF IsFarOffResonance(b1_offset) THEN 0 ELSE Len(lines)

\* One pass of the loop over the offsets (lines 160-193).
PointIntensity(p, b1_offset, lines) ==
    LET domega_i_ab == RMul(p.dw_i_ab, ppm_to_rads)
        omega1x_i == R(two_pi * b1_frq)
        lambda_i_b == RAdd(p.lambda_i_a, p.dlambda_i_ab)
        shift_ex == calculate_shift_2st(p.pb, p.kex_ab, domega_i_ab,
                                        p.lambda_i_a, lambda_i_b)
        omega_i_a == RSub(RSub(RMul(RSub(p.cs_i_a, R(carrier)), ppm_to_rads),
                               RMul(R(two_pi), b1_offset)),
                          shift_ex)
        magz_eq == << RSub(R(1), p.pb), p.pb >>
    IN  IF IsFarOffResonance(b1_offset)
        THEN magz_eq[1]
        ELSE MultipletSum(lines, p, omega_i_a, domega_i_ab, omega1x_i, magz_eq)

\* The unwrapped method: one intensity per entry of self.b1_offsets.
_calculate_profile(p, offsets, lines) ==
    [i \in 1..Len(offsets) |-> PointIntensity(p, offsets[i], lines)]


RECURSIVE Diagonalizations(_, _)
Diagonalizations(offsets, lines) ==
    IF offsets = <<>> THEN 0
    ELSE PointDiagonalizations(Head(offsets), lines)
         + Diagonalizations(Tail(offsets), lines)

-----------------------------------------------------------------------------
(* lru_cache(5)(self._calculate_profile): entries oldest use first *)

CacheKeys(c) == {c[i].key : i \in 1..Len(c)}
CacheIndex(c, key) == CHOOSE i \in 1..Len(c) : c[i].key = key
Without(c, i) == SubSeq(c, 1, i - 1) \o SubSeq(c, i + 1, Len(c))

\* Mutant: a hit that leaves the order of the entries alone (first in,
\* first out).
CacheHitNoRefresh(c, key) ==
    [value |-> c[CacheIndex(c, key)].value, cache |-> c]

\* A hit returns the stored result and makes the entry the most recent.
CacheHit(c, key) ==
    LET i == CacheIndex(c, key)
    IN  [value |-> c[i].value, cache |-> Without(c, i) \o <<c[i]>>]

\* A miss stores the fresh result, dropping the oldest entry of a full cache.
CacheMiss(c, key, value) ==
    LET kept == IF Len(c) >= maxsize THEN Tail(c) ELSE c
    IN  [value |-> value, cache |-> kept \o <<[key |-> key, value |-> value]>>]

\* self._calculate_profile(**kwargs) through the cache (line 204)
CachedProfile(c, p, offsets, lines) ==
    IF p \in CacheKeys(c)
    THEN CacheHit(c, p) @@ [hit |-> TRUE, neig |-> 0]
    ELSE CacheMiss(c, p, _calculate_profile(p, offsets, lines))
         @@ [hit |-> FALSE, neig |-> Diagonalizations(offsets, lines)]

-----------------------------------------------------------------------------
(* Profile._calculate_scale, calculate_profile, calculate_residuals *)

ScalarOK(s) == [exc |-> "", s |-> s]
ScalarRaise(e) == [exc |-> e, s |-> NaN]

\* Mutant: the uncertainties left out of the scale,
\* sum(cal * val) / sum(cal ** 2).
UnweightedScale(cal_, val_, err_) ==
    IF ~Broadcastable(Len(cal_), Len(val_))
    THEN ScalarRaise("ValueError")
    ELSE Let(ArrMul(cal_, val_), LAMBDA num :
         Let(Square(cal_), LAMBDA den :
             IF num = <<>> /\ den = <<>>
             THEN ScalarRaise("ZeroDivisionError")
             ELSE ScalarOK(RDiv(PySum(num), PySum(den)))))

\* sum(cal * self.val / self.err ** 2) / sum((cal / self.err) ** 2)
_calculate_scale(cal_, val_, err_) ==
    IF ~Broadcastable(Len(cal_), Len(val_))
       \/ ~Broadcastable(BLen(Len(cal_), Len(val_)), Len(err_))
       \/ ~Broadcastable(Len(cal_), Len(err_))
    THEN ScalarRaise("ValueError")
    ELSE Let(ArrDiv(ArrMul(cal_, val_), Square(err_)), LAMBDA num :
         Let(Square(ArrDiv(cal_, err_)), LAMBDA den :
             IF num = <<>> /\ den = <<>>
             THEN ScalarRaise("ZeroDivisionError")   \* int 0 / int 0
             ELSE ScalarOK(RDiv(PySum(num), PySum(den)))))

\* (self.val - values) / self.err  (line 230)
Residuals(values, val_, err_) ==
    IF ~Broadcastable(Len(val_), Len(values))
       \/ ~Broadcastable(BLen(Len(val_), Len(values)), Len(err_))
    THEN Raise("ValueError")
    ELSE OK(ArrDiv(ArrSub(val_, values), err_))

\* calculate_profile(params, b1_offsets): x is <<>> for b1_offsets=None and
\* <<X>> for a caller-supplied array X.
ProfileCall(c, p, x, offsets, val_, err_, lines) ==
    Let(CachedProfile(c, p, offsets, lines), LAMBDA got :
    Let(_calculate_scale(got.value, val_, err_), LAMBDA sc :
    Let(IF x = <<>> \/ sc.exc # "" THEN got.value
        ELSE _calculate_profile(p, x[1], lines), LAMBDA values :
        [cache |-> got.cache, hit |-> got.hit,
         neig |-> IF x = <<>> \/ sc.exc # "" THEN got.neig
                  ELSE Diagonalizations(x[1], lines),
         raw |-> values,
         exc |-> sc.exc,
         v |-> IF sc.exc # "" THEN <<>> ELSE Scaled(values, sc.s)])))


-----------------------------------------------------------------------------
(* Inputs: measured data, parameter sets of the fit *)

\* Rows of a measured CEST profile: offset (Hz), intensity, uncertainty.
Rows == <<
    [b1_offset |-> R(-10001), intensity |-> R(4), intensity_err |-> R(1)],
    [b1_offset |-> R(-10000), intensity |-> R(4), intensity_err |-> R(2)],
    [b1_offset |-> R(-9999),  intensity |-> R(3), intensity_err |-> R(1)],
    [b1_offset |-> R(0),      intensity |-> R(3), intensity_err |-> R(1)],
    [b1_offset |-> R(1),      intensity |-> R(1), intensity_err |-> R(2)],
    [b1_offset |-> R(3),      intensity |-> R(2), intensity_err |-> R(1)] >>

\* The rows with index in S, in file order.
RECURSIVE PickRows(_, _)
PickRows(S, from) ==
    IF from > Len(Rows) THEN <<>>
    ELSE (IF from \in S THEN <<Rows[from]>> ELSE <<>>) \o PickRows(S, from + 1)

\* The data sets: up to MaxPoints consecutive rows of the scan.
RowSets == {a..(a + n - 1) : a \in 1..Len(Rows), n \in 0..MaxPoints}
           \cap SUBSET (1..Len(Rows))

\* The lmfit parameter values of the i-th parameter set the fit tries.
TrialParams(i) ==
    [pb           |-> Rat(1, 2 + 2 * (i % 2)),
     kex_ab       |-> R(6 * ((i + 1) \div 2)),
     dw_i_ab      |-> R(2),
     rho_i_a      |-> R(1 + (i % 3)),
     lambda_i_a   |-> R(2 * (i % 2)),
     dlambda_i_ab |-> R(0),
     cs_i_a       |-> R(1 + (i % 2))]

\* The two parameter sets tried on a Profile that is also filtered, and the
\* parameter sets of a fit long enough to overflow the cache.
Trials == {TrialParams(1), TrialParams(2)}
CacheTrials == {TrialParams(i) : i \in 1..(maxsize + ExtraTrials)}

\* Offset arrays a caller hands to calculate_profile for plotting.
PlotOffsets == { <<R(-10000), R(2)>> }

NoCall == [op |-> "", params |-> <<>>, x |-> <<>>, hit |-> FALSE, neig |-> 0,
           raw |-> <<>>, offsets |-> <<>>, exc |-> "", v |-> <<>>]

Touch(history, key) ==
    SelectSeq(history, LAMBDA k : k # key) \o <<key>>

-----------------------------------------------------------------------------
(* Profile: the operations *)

\* Profile.__init__: the three arrays are stored as given; dv and de are the
\* numbers of trailing intensities and uncertainties the caller left out.
Construct(S, dv, de, width, lines, legacy) ==
    LET rows == PickRows(S, 1)
        n == Len(rows)
    IN  /\ ~constructed
        /\ dv <= n /\ de <= n
        /\ constructed' = TRUE
        /\ b1_offsets' = [i \in 1..n |-> rows[i].b1_offset]
        /\ val' = [i \in 1..(n - dv) |-> rows[i].intensity]
        /\ err' = [i \in 1..(n - de) |-> rows[i].intensity_err]
        /\ on_resonance_filter' = width
        /\ multiplet' = lines
        /\ numpy_legacy' = legacy
        /\ cache' = <<>>
        /\ recent' = <<>>
        /\ ret' = [NoCall EXCEPT !.op = "__init__"]
        /\ UNCHANGED <<scale_vars, liouvillian_vars, read_par_vars>>

\* Profile.calculate_profile(params, b1_offsets)
calculate_profile(p, x) ==
    \E r \in {ProfileCall(cache, p, x, b1_offsets, val, err, multiplet)} :
        /\ constructed
        /\ cache' = r.cache
        /\ recent' = Touch(recent, p)
        /\ ret' = [op |-> "calculate_profile", params |-> <<p>>, x |-> x,
                   hit |-> r.hit, neig |-> r.neig, raw |-> r.raw,
                   offsets |-> IF x = <<>> \/ r.exc # "" THEN b1_offsets ELSE x[1],
                   exc |-> r.exc, v |-> r.v]
        /\ UNCHANGED <<constructed, b1_offsets, val, err, on_resonance_filter,
                       multiplet, numpy_legacy, scale_vars, liouvillian_vars,
                       read_par_vars>>

\* Profile.calculate_residuals(params)
calculate_residuals(p) ==
    \E r \in {ProfileCall(cache, p, <<>>, b1_offsets, val, err, multiplet)} :
      \E res \in {IF r.exc # "" THEN Raise(r.exc) ELSE Residuals(r.v, val, err)} :
        /\ constructed
        /\ cache' = r.cache
        /\ recent' = Touch(recent, p)
        /\ ret' = [op |-> "calculate_residuals", params |-> <<p>>, x |-> <<>>,
                   hit |-> r.hit, neig |-> r.neig, raw |-> r.raw,
                   offsets |-> b1_offsets, exc |-> res.exc, v |-> res.v]
        /\ UNCHANGED <<constructed, b1_offsets, val, err, on_resonance_filter,
                       multiplet, numpy_legacy, scale_vars, liouvillian_vars,
                       read_par_vars>>

\* |nu| of one offset (lines 247-249)
NuAbs(p, b1_offset) ==
    RAbs(RSub(RDiv(RMul(RSub(p.cs_i_a, R(carrier)), ppm_to_rads), R(two_pi)),
              b1_offset))

\* Mutant: the exclusion is measured from the point nearest to resonance
\* instead of from resonance itself.
FilterMaskFromNearest(p, offsets, width) ==
    [i \in 1..Len(offsets) |->
        \E k \in 1..Len(offsets) :
            /\ \A m \in 1..Len(offsets) : RLe(NuAbs(p, offsets[k]), NuAbs(p, offsets[m]))
            /\ RGt(RSub(NuAbs(p, offsets[i]), NuAbs(p, offsets[k])),
                   RMul(width, Rat(1, 2)))]

\* nu_offsets and mask of filter_points (lines 246-251)
FilterMask(p, offsets, width) ==
    [i \in 1..Len(offsets) |->
        RGt(NuAbs(p, offsets[i]), RMul(width, Rat(1, 2)))]

\* Mutant: boolean indexing that drops the first entry on top of the masked
\* ones
BoolIndexShifted(a, mask, legacy) ==
    IF Len(a) # Len(mask) THEN Raise("IndexError")
    ELSE OK(Compress(a, [i \in 1..Len(a) |-> mask[i] /\ i > 1]))

\* a[mask]: with a mask of another length numpy raises IndexError; numpy
\* before 1.13 still indexed when every True of the mask lay inside a.
BoolIndex(a, mask, legacy) ==
    IF Len(a) = Len(mask) THEN OK(Compress(a, mask))
    ELSE IF legacy /\ \A i \in 1..Len(mask) : mask[i] => i <= Len(a)
    THEN OK(Compress(a, [i \in 1..Len(a) |-> i <= Len(mask) /\ mask[i]]))
    ELSE Raise("IndexError")

\* Profile.filter_points(params): the three assignments in order; an
\* IndexError leaves the assignments before it done.
filter_points(p) ==
    \E mask \in {FilterMask(p, b1_offsets, on_resonance_filter)} :
        /\ constructed
        /\ b1_offsets' = Compress(b1_offsets, mask)
        /\ \E nv \in {BoolIndex(val, mask, numpy_legacy)} :
             IF nv.exc # ""
             THEN /\ UNCHANGED <<val, err>>
                  /\ ret' = [NoCall EXCEPT !.op = "filter_points",
                                           !.params = <<p>>, !.exc = nv.exc]
             ELSE /\ val' = nv.v
                  /\ \E ne \in {BoolIndex(err, mask, numpy_legacy)} :
                       /\ err' = IF ne.exc # "" THEN err ELSE ne.v
                       /\ ret' = [NoCall EXCEPT !.op = "filter_points",
                                                !.params = <<p>>, !.exc = ne.exc]
        /\ UNCHANGED <<constructed, on_resonance_filter, multiplet, numpy_legacy,
                       cache, recent, scale_vars, liouvillian_vars, read_par_vars>>


-----------------------------------------------------------------------------
(* The Profile state machine *)

ScaleIdle == /\ cal = <<>>
             /\ scale = ScalarOK(NaN)
LiouvillianIdle == /\ kwargs = <<>>
                   /\ liouvillian = <<>>
ReadParIdle == /\ par_indexes = <<>>
               /\ par = <<>>
               /\ par_fixed = <<>>
               /\ starting_parameters = <<>>
               /\ par_none = {}
               /\ rp_i = 0
               /\ rp_pc = "idle"

NoProfile == /\ constructed = FALSE
             /\ b1_offsets = <<>>
             /\ val = <<>>
             /\ err = <<>>
             /\ on_resonance_filter = R(0)
             /\ multiplet = <<>>
             /\ numpy_legacy = FALSE
             /\ cache = <<>>
             /\ recent = <<>>
             /\ ret = NoCall

Init == NoProfile /\ ScaleIdle /\ LiouvillianIdle /\ ReadParIdle

Misalignments == {<<0, 0>>, <<1, 0>>, <<0, 1>>}

Next ==
    \/ \E S \in RowSets, m \in Misalignments, w \in FilterWidths,
          l \in Multiplets, legacy \in BOOLEAN :
          \* the numpy build only shows on misaligned arrays
          Construct(S, m[1], m[2], w, l, legacy /\ m # <<0, 0>>)
    \/ \E p \in Trials : calculate_profile(p, <<>>)
    \/ \E p \in Trials, X \in PlotOffsets : calculate_profile(p, <<X>>)
    \/ \E p \in Trials : calculate_residuals(p)
    \/ \E p \in Trials : filter_points(p)

Spec == Init /\ [][Next]_vars


-----------------------------------------------------------------------------
(* Claims about the Profile *)

Aligned == Len(b1_offsets) = Len(val) /\ Len(val) = Len(err)
Simulated == ret.op \in {"calculate_profile", "calculate_residuals"}
\* ret.raw was computed by this call, for the offsets ret.offsets
RawIsFresh == Simulated /\ ((ret.x # <<>> /\ ret.exc = "") \/ ~ret.hit)

\* C1: calculate_residuals returns one residual per retained data point, in
\* the order of the data, built from a simulated profile with one intensity
\* per current offset, also when the parameter values were already
\* evaluated before a filter_points call.  (Stated for a Profile whose
\* arrays are aligned and not empty.)
C1_ResidualsMatchRetainedData ==
    (ret.op = "calculate_residuals" /\ Aligned /\ Len(val) > 0)
        => /\ ret.exc = ""
           /\ Len(ret.v) = Len(val)
           /\ Len(ret.raw) = Len(b1_offsets)

\* C2: at every offset at or below the sentinel -1.0e4 the raw intensity
\* _calculate_profile produces is exactly 1 - pB, whatever the other
\* parameters and the multiplet, and only the other offsets cost a
\* Liouvillian and its diagonalization (one per multiplet line).
C2_FarOffResonanceIsEquilibrium ==
    RawIsFresh =>
        /\ Len(ret.raw) = Len(ret.offsets)
        /\ \A i \in 1..Len(ret.offsets) :
              ret.offsets[i].n <= -10000 * ret.offsets[i].d
                  => ret.raw[i] = RSub(R(1), ret.params[1].pb)
        /\ ret.neig = Len(multiplet) *
               Cardinality({i \in 1..Len(ret.offsets) :
                               ret.offsets[i].n > -10000 * ret.offsets[i].d})

\* C2 witness: a fresh profile over the sentinel offset itself and over an
\* offset in the dip, whose intensity is not 1 - pB.
C2_Witness ==
    /\ RawIsFresh
    /\ \E i, k \in 1..Len(ret.offsets) :
          /\ ret.offsets[i] = R(-10000)
          /\ ret.raw[i] = RSub(R(1), ret.params[1].pb)
          /\ ret.raw[k] # RSub(R(1), ret.params[1].pb)

C7_MisalignedRejected == constructed => Aligned


-----------------------------------------------------------------------------
(* Scaling of a simulated profile onto the measured one *)

\* Measured intensities, uncertainties and simulated intensities
ValValues == {R(0), R(1), R(2)}
\* Uncertainties: the same for every point, or alternating
ErrPatterns(n) == {[i \in 1..n |-> R(1)], [i \in 1..n |-> R(1 + (i % 2))]}
CalValues == {R(0), R(1), R(2)}

SeqsOf(S, n) == [1..n -> S]

\* A Profile of n <= MaxLen aligned points; nothing simulated yet.
InitScale ==
    /\ \E n \in 0..MaxLen :
          /\ b1_offsets = [i \in 1..n |-> R(i)]
          /\ val \in SeqsOf(ValValues, n)
          /\ err \in ErrPatterns(n)
    /\ constructed = TRUE
    /\ on_resonance_filter = R(0)
    /\ multiplet = Singlet
    /\ numpy_legacy = FALSE
    /\ cache = <<>>
    /\ recent = <<>>
    /\ ret = [NoCall EXCEPT !.op = "__init__"]
    /\ ScaleIdle /\ LiouvillianIdle /\ ReadParIdle

\* Profile._calculate_scale(cal) called on a simulated profile cal_
CalculateScale(cal_) ==
    /\ cal' = cal_
    /\ scale' = _calculate_scale(cal_, val, err)
    /\ ret' = [NoCall EXCEPT !.op = "_calculate_scale", !.raw = cal_]
    /\ UNCHANGED <<constructed, b1_offsets, val, err, on_resonance_filter,
                   multiplet, numpy_legacy, cache, recent, liouvillian_vars,
                   read_par_vars>>

\* Lines 205, 212 and 230 of calculate_residuals for the simulated profile
\* cal_ that line 204 obtained: scale, scaled values, residuals.
ScaledResiduals(cal_) ==
    \E sc \in {_calculate_scale(cal_, val, err)} :
      \E res \in {IF sc.exc # "" THEN Raise(sc.exc)
                  ELSE Residuals(Scaled(cal_, sc.s), val, err)} :
        /\ cal' = cal_
        /\ scale' = sc
        /\ ret' = [NoCall EXCEPT !.op = "calculate_residuals", !.raw = cal_,
                                 !.offsets = b1_offsets,
                                 !.exc = res.exc, !.v = res.v]
        /\ UNCHANGED <<constructed, b1_offsets, val, err, on_resonance_filter,
                       multiplet, numpy_legacy, cache, recent,
                       liouvillian_vars, read_par_vars>>

NextScale ==
    \/ \E cal_ \in SeqsOf(CalValues, Len(val)) : CalculateScale(cal_)
    \/ \E cal_ \in SeqsOf(CalValues, Len(val)) : ScaledResiduals(cal_)

SpecScale == InitScale /\ [][NextScale]_vars

-----------------------------------------------------------------------------
(* ixyzsz.py: the Liouvillian over the basis
   {Ix, Iy, Iz, 2IxSz, 2IySz, 2IzSz}{a, b} *)

BasisSize == 12     \* len(indexes)

\* The matrix with the entries <<row, column, value>> of E, zero elsewhere
Mat(E) ==
    [i \in 1..BasisSize |-> [j \in 1..BasisSize |->
        IF \E e \in E : e[1] = i /\ e[2] = j
        THEN (CHOOSE e \in E : e[1] = i /\ e[2] = j)[3]
        ELSE 0]]

\* The entries of E moved to the block of state a (0) or b (1)
InState(E, state) == {<<e[1] + 6 * state, e[2] + 6 * state, e[3]>> : e \in E}

\* How each physical term acts on the six operators of one state
\* (chemex.bases.ref, restricted to the basis by `mesh`).
TransverseRelaxation == {<<1, 1, -1>>, <<2, 2, -1>>}
LongitudinalRelaxation == {<<3, 3, -1>>}
AntiphaseRelaxation == {<<4, 4, -1>>, <<5, 5, -1>>}
TwoSpinOrderRelaxation == {<<6, 6, -1>>}
ShiftRotation == {<<1, 2, -1>>, <<2, 1, 1>>, <<4, 5, -1>>, <<5, 4, 1>>}
ScalarCoupling == {<<1, 5, -3>>, <<5, 1, 3>>, <<2, 4, 3>>, <<4, 2, -3>>}
TransverseCrossCorrelation == {<<1, 4, -1>>, <<4, 1, -1>>, <<2, 5, -1>>, <<5, 2, -1>>}
LongitudinalCrossCorrelation == {<<3, 6, -1>>, <<6, 3, -1>>}
FieldAlongX == {<<2, 3, -1>>, <<3, 2, 1>>, <<5, 6, -1>>, <<6, 5, 1>>}
FieldAlongY == {<<1, 3, 1>>, <<3, 1, -1>>, <<4, 6, 1>>, <<6, 4, -1>>}

mat_r2_i_a == Mat(InState(TransverseRelaxation, 0))
mat_r2_i_b == Mat(InState(TransverseRelaxation, 1))
mat_r1_i_a == Mat(InState(LongitudinalRelaxation, 0))
mat_r1_i_b == Mat(InState(LongitudinalRelaxation, 1))
mat_r2a_i_a == Mat(InState(AntiphaseRelaxation, 0))
mat_r2a_i_b == Mat(InState(AntiphaseRelaxation, 1))
mat_r1a_a == Mat(InState(TwoSpinOrderRelaxation, 0))
mat_r1a_b == Mat(InState(TwoSpinOrderRelaxation, 1))
mat_omega_i_a == Mat(InState(ShiftRotation, 0))
mat_omega_i_b == Mat(InState(ShiftRotation, 1))
mat_j_a == Mat(InState(ScalarCoupling, 0))
mat_j_b == Mat(InState(ScalarCoupling, 1))
mat_etaxy_i_a == Mat(InState(TransverseCrossCorrelation, 0))
mat_etaxy_i_b == Mat(InState(TransverseCrossCorrelation, 1))
mat_etaz_i_a == Mat(InState(LongitudinalCrossCorrelation, 0))
mat_etaz_i_b == Mat(InState(LongitudinalCrossCorrelation, 1))
mat_omega1x_i == Mat(InState(FieldAlongX, 0) \cup InState(FieldAlongX, 1))
mat_omega1y_i == Mat(InState(FieldAlongY, 0) \cup InState(FieldAlongY, 1))
mat_kab == Mat({<<k, k, -1>> : k \in 1..6} \cup {<<k + 6, k, 1>> : k \in 1..6})
mat_kba == Mat({<<k + 6, k + 6, -1>> : k \in 1..6} \cup {<<k, k + 6, 1>> : k \in 1..6})

\* The named keyword parameters of compute_liouvillian
ParamNames ==
    {"pb", "kex_ab",
     "r2_i_a", "r1_i_a", "r2a_i_a", "etaxy_i_a", "etaz_i_a", "omega_i_a",
     "r2_i_b", "r1_i_b", "r2a_i_b", "etaxy_i_b", "etaz_i_b", "omega_i_b",
     "r1a_a", "j_a", "r1a_b", "j_b", "omega1x_i", "omega1y_i"}

\* A keyword that was not passed has its default 0.0; a keyword that is not
\* a named parameter lands in **kwargs and is not looked at.
Arg(kw, name) == IF name \in DOMAIN kw THEN kw[name] ELSE 0

\* Mutant: the two exchange rates taken for one another
ExchangeRatesSwapped(kex_ab, pb) ==
    [kab |-> kex_ab * (1 - pb), kba |-> kex_ab * pb]

\* Mutant: a forward rate that is quadratic in pb
ExchangeRatesQuadratic(kex_ab, pb) ==
    [kab |-> kex_ab * pb * pb, kba |-> kex_ab * (1 - pb)]

\* pa = 1.0 - pb; kab, kba = kex_ab * np.array([pb, pa])
ExchangeRates(kex_ab, pb) ==
    [kab |-> kex_ab * pb, kba |-> kex_ab * (1 - pb)]

compute_liouvillian(kw) ==
    Let([name \in ParamNames |-> Arg(kw, name)], LAMBDA a :
    Let(ExchangeRates(a.kex_ab, a.pb), LAMBDA k :
        [i \in 1..BasisSize |-> [j \in 1..BasisSize |->
            mat_r2_i_a[i][j] * a.r2_i_a +
            mat_r2_i_b[i][j] * a.r2_i_b +
            mat_r1_i_a[i][j] * a.r1_i_a +
            mat_r1_i_b[i][j] * a.r1_i_b +
            mat_r2a_i_a[i][j] * a.r2a_i_a +
            mat_r2a_i_b[i][j] * a.r2a_i_b +
            mat_etaxy_i_a[i][j] * a.etaxy_i_a +
            mat_etaxy_i_b[i][j] * a.etaxy_i_b +
            mat_etaz_i_a[i][j] * a.etaz_i_a +
            mat_etaz_i_b[i][j] * a.etaz_i_b +
            mat_omega_i_a[i][j] * a.omega_i_a +
            mat_omega_i_b[i][j] * a.omega_i_b +
            mat_r1a_a[i][j] * a.r1a_a +
            mat_r1a_b[i][j] * a.r1a_b +
            mat_j_a[i][j] * a.j_a +
            mat_j_b[i][j] * a.j_b +
            mat_omega1x_i[i][j] * a.omega1x_i +
            mat_omega1y_i[i][j] * a.omega1y_i +
            mat_kab[i][j] * k.kab +
            mat_kba[i][j] * k.kba]]))

\* Keyword arguments of a call: nothing, the exchange parameters alone or
\* every named parameter, with at most one keyword set on top of these.
NoKeywords == [name \in {} |-> 0]
ExchangeOnly == [name \in {"pb", "kex_ab"} |-> IF name = "pb" THEN 1 ELSE 2]
AllKeywords == [name \in ParamNames |-> IF name = "pb" THEN 2 ELSE 1]
Keywords == ParamNames \cup {"cs_i_a"}
Values == (-1)..MaxValue

With(kw, name, value) ==
    [n \in DOMAIN kw \cup {name} |-> IF n = name THEN value ELSE kw[n]]

CallKeywords ==
    LET bases == {NoKeywords, ExchangeOnly, AllKeywords}
    IN  bases \cup {With(kw, name, value) :
                       kw \in bases, name \in Keywords, value \in Values}

\* The arguments of the next call are in place; nothing computed yet.
InitLiouvillian ==
    /\ NoProfile
    /\ ScaleIdle /\ ReadParIdle
    /\ kwargs \in CallKeywords
    /\ liouvillian = <<>>

\* liouvillian = compute_liouvillian(**kwargs)
BuildLiouvillian ==
    /\ liouvillian' = compute_liouvillian(kwargs)
    /\ UNCHANGED <<kwargs, profile_vars, scale_vars, read_par_vars>>

NextLiouvillian == BuildLiouvillian

SpecLiouvillian == InitLiouvillian /\ [][NextLiouvillian]_vars

-----------------------------------------------------------------------------
(* reading.py: the parameters of a fit and their starting values *)

\* Python values: None is <<>>, the float x is <<x>>.
None == <<>>
Float(x) == <<x>>

Tokens(name) == {name[i] : i \in 1..Len(name)}

\* Long parameter names required by the data (tuples, first token first)
LongNames == << <<"pb">>, <<"cs", "g23n">>, <<"r_2", "g23n">> >>

\* The members of S in the order of LongNames (enumerate over the set)
RECURSIVE Enumerate(_, _)
Enumerate(S, from) ==
    IF from > Len(LongNames) THEN <<>>
    ELSE (IF LongNames[from] \in S THEN <<LongNames[from]>> ELSE <<>>)
         \o Enumerate(S, from + 1)

\* Entries a parameter file can hold. An entry of the default section has
\* section <<>> and the tokens of its comma-separated name as key; an entry of
\* a local section has the tokens of the section heading and its key.
FileEntries == <<
    [section |-> <<>>,      key |-> {"pb"},       val |-> 1],
    [section |-> <<>>,      key |-> {"cs"},       val |-> 0],
    [section |-> <<>>,      key |-> {"r_2"},      val |-> -1],
    [section |-> <<>>,      key |-> {"pb", "cs"}, val |-> 1],
    [section |-> <<>>,      key |-> {"zz"},       val |-> 1],
    [section |-> <<"cs">>,  key |-> "g23n",       val |-> 5],
    [section |-> <<"r_2">>, key |-> "g23n",       val |-> 4],
    [section |-> <<"xx">>,  key |-> "g23n",       val |-> 1] >>

\* Parameter files: which default section they have, and up to MaxEntries
\* entries (default section first, then the local sections in file order).
ParameterFiles ==
    [section_default : {"default", "global", "none"},
     entries : {S \in SUBSET (1..Len(FileEntries)) : Cardinality(S) <= MaxEntries}]

\* create_fitting_parameters_array(data) for data whose points need the
\* fitting parameters parameters_to_fit and the fixed ones parameters_to_fix
create_fitting_parameters_array(parameters_to_fit, parameters_to_fix) ==
    /\ rp_pc = "idle"
    /\ par_indexes' = Enumerate(parameters_to_fit, 1)
    /\ par' = [i \in 1..Cardinality(parameters_to_fit) |-> Float(0)]
    /\ par_fixed' = [name \in parameters_to_fix \ parameters_to_fit |-> None]
    /\ starting_parameters' = <<>>
    /\ par_none' = {}
    /\ rp_i' = 0
    /\ rp_pc' = "created"
    /\ UNCHANGED <<profile_vars, scale_vars, liouvillian_vars>>

\* short_long_par_names (lines 113-119): first token -> tokens of the long
\* names that start with it
short_long_par_names(long_par_names) ==
    [first \in {key[1] : key \in long_par_names} |->
        UNION {Tokens(key) : key \in {k \in long_par_names : k[1] = first}}]

\* Lines 134-210: the (name, value) pairs kept from the entries with index in
\* S, from index `from` on. A default entry is kept when exactly one of its
\* tokens starts a long name, the entries of a local section when the section
\* heading matches a long name.
RECURSIVE ReadEntries(_, _, _)
ReadEntries(S, from, short_long) ==
    IF from > Len(FileEntries) THEN <<>>
    ELSE LET e == FileEntries[from]
             kept ==
                IF from \notin S THEN <<>>
                ELSE IF e.section = <<>>
                THEN IF Cardinality(e.key \cap DOMAIN short_long) # 1 THEN <<>>
                     ELSE << [name |-> e.key, val |-> e.val] >>
                ELSE IF e.section[1] \notin DOMAIN short_long THEN <<>>
                ELSE IF ~(Tokens(e.section) \subseteq short_long[e.section[1]])
                     THEN <<>>
                ELSE << [name |-> Tokens(e.section) \cup {e.key}, val |-> e.val] >>
         IN  kept \o ReadEntries(S, from + 1, short_long)

\* read_par, lines 80-210: parse the file and collect starting_parameters
ParseParameterFile(file) ==
    /\ rp_pc = "created"
    /\ IF file.section_default = "none"
       THEN /\ rp_pc' = "exit"      \* Section 'default' must be present
            /\ UNCHANGED <<starting_parameters, rp_i>>
       ELSE /\ starting_parameters' =
                  ReadEntries(file.entries, 1,
                      short_long_par_names(Tokens(par_indexes) \cup DOMAIN par_fixed))
            /\ rp_i' = 1
            /\ rp_pc' = "apply"
    /\ UNCHANGED <<par_indexes, par, par_fixed, par_none,
                   profile_vars, scale_vars, liouvillian_vars>>

\* read_par, lines 213-223: one turn of the loop over starting_parameters
SetStartingParameter ==
    /\ rp_pc = "apply"
    /\ rp_i <= Len(starting_parameters)
    /\ LET par_name_1 == starting_parameters[rp_i].name
           value == Float(starting_parameters[rp_i].val)
       IN  /\ par' = [index \in 1..Len(par) |->
                        IF par_name_1 \subseteq Tokens(par_indexes[index])
                        THEN value ELSE par[index]]
           /\ par_fixed' = [par_name_2 \in DOMAIN par_fixed |->
                              IF par_name_1 \subseteq Tokens(par_name_2)
                              THEN value ELSE par_fixed[par_name_2]]
    /\ rp_i' = rp_i + 1
    /\ UNCHANGED <<par_indexes, starting_parameters, par_none, rp_pc,
                   profile_vars, scale_vars, liouvillian_vars>>

\* read_par, lines 226-264: collect the unset parameters, exit or return
CheckParameters ==
    /\ rp_pc = "apply"
    /\ rp_i > Len(starting_parameters)
    /\ \E none \in {{par_indexes[index][1] :
                        index \in {i \in 1..Len(par) : par[i] = None}}
                    \cup {par_name[1] :
                        par_name \in {k \in DOMAIN par_fixed : par_fixed[k] = None}}} :
          /\ par_none' = none
          /\ rp_pc' = IF none # {} THEN "exit" ELSE "returned"
    /\ UNCHANGED <<par_indexes, par, par_fixed, starting_parameters, rp_i,
                   profile_vars, scale_vars, liouvillian_vars>>

InitReadPar ==
    /\ NoProfile
    /\ ScaleIdle /\ LiouvillianIdle /\ ReadParIdle

NextReadPar ==
    \/ \E parameters_to_fit, parameters_to_fix \in SUBSET Tokens(LongNames) :
          create_fitting_parameters_array(parameters_to_fit, parameters_to_fix)
    \/ \E file \in ParameterFiles : ParseParameterFile(file)
    \/ SetStartingParameter
    \/ CheckParameters

SpecReadPar == InitReadPar /\ [][NextReadPar]_vars

-----------------------------------------------------------------------------
(* A fit on one Profile: more parameter sets than the cache holds *)

InitCache ==
    /\ constructed = TRUE
    /\ b1_offsets = [i \in 1..2 |-> Rows[i + 3].b1_offset]
    /\ val = [i \in 1..2 |-> Rows[i + 3].intensity]
    /\ err = [i \in 1..2 |-> Rows[i + 3].intensity_err]
    /\ on_resonance_filter = R(0)
    /\ multiplet = Singlet
    /\ numpy_legacy = FALSE
    /\ cache = <<>>
    /\ recent = <<>>
    /\ ret = [NoCall EXCEPT !.op = "__init__"]
    /\ ScaleIdle /\ LiouvillianIdle /\ ReadParIdle

NextCache ==
    \/ \E p \in CacheTrials : calculate_profile(p, <<>>)
    \/ \E p \in CacheTrials, X \in PlotOffsets : calculate_profile(p, <<X>>)
    \/ \E p \in CacheTrials : calculate_residuals(p)

SpecCache == InitCache /\ [][NextCache]_vars

\* The last n entries of a sequence
LastOf(q, n) == {q[i] : i \in {k \in 1..Len(q) : k > Len(q) - n}}

\* C6: the cache is keyed by the seven parameter values and never holds
\* more than 5 entries; its keys are the 5 most recently used parameter
\* sets (the least recently used one is evicted); a call whose parameter
\* values are in the cache is a hit that recomputes nothing, any other call
\* computes. (A call that passes b1_offsets evaluates the unwrapped function
\* for those offsets on top of the cached call.)
C6_CacheState ==
    /\ Len(cache) <= 5
    /\ Cardinality(CacheKeys(cache)) = Len(cache)
    /\ CacheKeys(cache) = LastOf(recent, 5)
    /\ \A i \in 1..Len(cache) :
          DOMAIN cache[i].key = {"pb", "kex_ab", "dw_i_ab", "rho_i_a",
                                 "lambda_i_a", "dlambda_i_ab", "cs_i_a"}
    /\ Simulated => /\ cache[Len(cache)].key = ret.params[1]
                    /\ ret.x = <<>> => cache[Len(cache)].value = ret.raw

C6_CacheStep ==
    Simulated' /\ ret' # ret =>
        /\ ret'.hit = (ret'.params[1] \in CacheKeys(cache))
        /\ ret'.hit => Len(cache') = Len(cache)
        /\ ret'.x = <<>> => (ret'.neig = 0) = ret'.hit

C6_BoundedLruCache == []C6_CacheState /\ [][C6_CacheStep]_vars

\* C6 witness: a hit on a full cache from which the parameter set used
\* longest ago has been evicted, the oldest cached one having been used
\* again since it was stored.
C6_Witness ==
    /\ Len(cache) = 5
    /\ Len(recent) > 5
    /\ ret.hit
    /\ recent[1] \notin CacheKeys(cache)
    /\ \E i, k \in 1..Len(cache) :
          i < k /\ cache[i].key = TrialParams(2) /\ cache[k].key = TrialParams(1)


\* Weighted sums over the points, written out term by term
RECURSIVE WeightedCross(_, _, _, _)
WeightedCross(a, b, e, n) ==
    IF n = 0 THEN R(0)
    ELSE RAdd(WeightedCross(a, b, e, n - 1),
              RDiv(RMul(a[n], b[n]), RMul(e[n], e[n])))

\* sum(((measured - factor * simulated) / err) ** 2)
RECURSIVE WeightedSumOfSquares(_, _)
WeightedSumOfSquares(factor, n) ==
    IF n = 0 THEN R(0)
    ELSE LET r == RDiv(RSub(val[n], RMul(factor, cal[n])), err[n])
         IN  RAdd(WeightedSumOfSquares(factor, n - 1), RMul(r, r))

\* d/dfactor of the weighted sum of squares, up to the factor -2
RECURSIVE WeightedSlope(_, _)
WeightedSlope(factor, n) ==
    IF n = 0 THEN R(0)
    ELSE RAdd(WeightedSlope(factor, n - 1),
              RDiv(RMul(cal[n], RSub(val[n], RMul(factor, cal[n]))),
                   RMul(err[n], err[n])))

OtherFactors == {Rat(k, 4) : k \in -4..16}

ScaleComputed == ret.op \in {"_calculate_scale", "calculate_residuals"}
SomeSimulatedNonZero == \E i \in 1..Len(cal) : cal[i] # R(0)

\* C3: for simulated, measured and err arrays of equal length, nonzero err
\* and a simulated array that is not all zero, the scale is
\* sum(simulated*measured/err^2) / sum((simulated/err)^2); the derivative of
\* the weighted sum of squares vanishes there and no other factor gives a
\* smaller weighted sum of squares.
C3_ScaleIsWeightedOptimum ==
    (ScaleComputed /\ SomeSimulatedNonZero) =>
        /\ scale.exc = ""
        /\ scale.s = RDiv(WeightedCross(cal, val, err, Len(cal)),
                          WeightedCross(cal, cal, err, Len(cal)))
        /\ WeightedSlope(scale.s, Len(cal)) = R(0)
        /\ \A f \in OtherFactors :
              RLe(WeightedSumOfSquares(scale.s, Len(cal)),
                  WeightedSumOfSquares(f, Len(cal)))

\* C3 witness: a scale computed for two points of different uncertainty,
\* which is neither 0 nor 1 and leaves a nonzero weighted sum of squares.
C3_Witness ==
    /\ ScaleComputed
    /\ Len(cal) = 2
    /\ err[1] # err[2]
    /\ cal[1] # R(0) /\ cal[2] # R(0)
    /\ scale.exc = ""
    /\ scale.s \notin {R(0), R(1)}
    /\ RGt(WeightedSumOfSquares(scale.s, 2), R(0))

\* C5: when the simulated profile is the Profile's own measured values, the
\* scale is 1 and every residual is zero, whatever the measured values are
\* (all-zero values included).
C5_RoundTrip ==
    (ret.op = "calculate_residuals" /\ cal = val /\ Len(val) > 0) =>
        /\ scale.exc = "" /\ scale.s = R(1)
        /\ ret.exc = ""
        /\ Len(ret.v) = Len(val)
        /\ \A i \in 1..Len(ret.v) : ret.v[i] = R(0)


\* The parameter file gave the parameter a value: one of the entries kept
\* from it names the parameter.
GivenByFile(par_name) ==
    \E k \in 1..Len(starting_parameters) :
        starting_parameters[k].name \subseteq Tokens(par_name)

RequiredParameters == Tokens(par_indexes) \cup DOMAIN par_fixed

\* C8: once every entry of the parameter file has been applied, read_par
\* exits with an error naming the parameters when a fitting or a fixed
\* parameter was given no value by the file, and returns normally only when
\* every fitting and fixed parameter was set.
C8_UnsetParameterIsAnError ==
    /\ rp_pc = "returned" => \A par_name \in RequiredParameters : GivenByFile(par_name)
    /\ (rp_pc = "exit" /\ rp_i > 0) =>
          par_none = {par_name[1] : par_name \in
                         {k \in RequiredParameters : ~GivenByFile(k)}}


\* The structural matrices with the parameter that weights each
WeightedTerms == <<
    [mat |-> mat_r2_i_a, weight |-> "r2_i_a"],
    [mat |-> mat_r2_i_b, weight |-> "r2_i_b"],
    [mat |-> mat_r1_i_a, weight |-> "r1_i_a"],
    [mat |-> mat_r1_i_b, weight |-> "r1_i_b"],
    [mat |-> mat_r2a_i_a, weight |-> "r2a_i_a"],
    [mat |-> mat_r2a_i_b, weight |-> "r2a_i_b"],
    [mat |-> mat_etaxy_i_a, weight |-> "etaxy_i_a"],
    [mat |-> mat_etaxy_i_b, weight |-> "etaxy_i_b"],
    [mat |-> mat_etaz_i_a, weight |-> "etaz_i_a"],
    [mat |-> mat_etaz_i_b, weight |-> "etaz_i_b"],
    [mat |-> mat_omega_i_a, weight |-> "omega_i_a"],
    [mat |-> mat_omega_i_b, weight |-> "omega_i_b"],
    [mat |-> mat_r1a_a, weight |-> "r1a_a"],
    [mat |-> mat_r1a_b, weight |-> "r1a_b"],
    [mat |-> mat_j_a, weight |-> "j_a"],
    [mat |-> mat_j_b, weight |-> "j_b"],
    [mat |-> mat_omega1x_i, weight |-> "omega1x_i"],
    [mat |-> mat_omega1y_i, weight |-> "omega1y_i"] >>

RECURSIVE TermSum(_, _, _, _)
TermSum(kw, i, j, n) ==
    IF n = 0 THEN 0
    ELSE TermSum(kw, i, j, n - 1)
         + WeightedTerms[n].mat[i][j] * Arg(kw, WeightedTerms[n].weight)

ZeroMatrix == [i \in 1..BasisSize |-> [j \in 1..BasisSize |-> 0]]
MatAdd(A, B) == [i \in 1..BasisSize |-> [j \in 1..BasisSize |-> A[i][j] + B[i][j]]]
MatSub(A, B) == [i \in 1..BasisSize |-> [j \in 1..BasisSize |-> A[i][j] - B[i][j]]]
MatScale(c, A) == [i \in 1..BasisSize |-> [j \in 1..BasisSize |-> c * A[i][j]]]

\* kw without the keywords that are explicitly 0
NonZeroKeywords(kw) == [name \in {n \in DOMAIN kw : kw[n] # 0} |-> kw[name]]

Built == liouvillian # <<>>

\* C9: the Liouvillian is the sum over the structural matrices of parameter
\* value times matrix, the exchange matrices weighted by kex_ab*pb and
\* kex_ab*(1-pb); a parameter that is not supplied contributes nothing, a
\* call without parameters gives the zero matrix, and a parameter supplied
\* as 0 gives what omitting it gives.
C9_WeightedSumOfStructuralMatrices ==
    Built =>
        /\ \A i, j \in 1..BasisSize :
              liouvillian[i][j] =
                  TermSum(kwargs, i, j, Len(WeightedTerms))
                  + mat_kab[i][j] * (Arg(kwargs, "kex_ab") * Arg(kwargs, "pb"))
                  + mat_kba[i][j] * (Arg(kwargs, "kex_ab") * (1 - Arg(kwargs, "pb")))
        /\ DOMAIN kwargs \cap ParamNames = {} => liouvillian = ZeroMatrix
        /\ liouvillian = compute_liouvillian(NonZeroKeywords(kwargs))

\* C9 witness: a Liouvillian built from every parameter, with both exchange
\* rates nonzero and different and one parameter supplied as 0.
C9_Witness ==
    /\ Built
    /\ ParamNames \subseteq DOMAIN kwargs
    /\ kwargs["kex_ab"] # 0 /\ kwargs["pb"] \notin {0, 1}
    /\ \E name \in ParamNames : kwargs[name] = 0
    /\ liouvillian # ZeroMatrix

\* The Liouvillian of kwargs with the parameter `name` set to `value`
LAt(name, value) == compute_liouvillian(With(kwargs, name, value))

\* C10: in each parameter p, the others held fixed,
\* L(p = a + b) - L(p = 0) = (L(p = a) - L(p = 0)) + (L(p = b) - L(p = 0)),
\* and scaling p by c scales its contribution L(p) - L(p = 0) by c.
C10_LinearInParameter ==
    Built =>
        \A name \in DOMAIN kwargs \cap ParamNames :
            \A a \in 1..MaxValue :
                LET b == kwargs[name] - a
                IN  b >= 1 =>
                      /\ MatSub(liouvillian, LAt(name, 0))
                            = MatAdd(MatSub(LAt(name, a), LAt(name, 0)),
                                     MatSub(LAt(name, b), LAt(name, 0)))
                      /\ MatSub(liouvillian, LAt(name, 0))
                            = MatScale(kwargs[name],
                                       MatSub(LAt(name, 1), LAt(name, 0)))

\* C10, determinism: building again from the same parameter values gives
\* the identical matrix.
C10_SameValuesSameMatrix ==
    [][Built => liouvillian' = liouvillian]_vars

C10_LinearAndDeterministic == []C10_LinearInParameter /\ C10_SameValuesSameMatrix

\* C10 witness: a Liouvillian built with exchange for a population pb that
\* splits into two nonzero parts.
C10_Witness ==
    /\ Built
    /\ {"pb", "kex_ab"} \subseteq DOMAIN kwargs
    /\ kwargs["pb"] >= 2 /\ kwargs["kex_ab"] # 0
    /\ MatSub(liouvillian, LAt("pb", 0)) # ZeroMatrix


\* The shift of state A at one offset, corrected for the exchange-induced
\* shift, and the shift difference between the states (rad/s)
ShiftOfStateA(p, b1_offset) ==
    RSub(RSub(RMul(RSub(p.cs_i_a, R(carrier)), ppm_to_rads),
              RMul(R(two_pi), b1_offset)),
         calculate_shift_2st(p.pb, p.kex_ab, RMul(p.dw_i_ab, ppm_to_rads),
                             p.lambda_i_a, RAdd(p.lambda_i_a, p.dlambda_i_ab)))
ShiftDifference(p) == RMul(p.dw_i_ab, ppm_to_rads)

\* The single-line intensity with both states shifted by j
SingleLine(p, b1_offset, j) ==
    Let(ShiftOfStateA(p, b1_offset), LAMBDA omega_a :
        LineIntensity(p.pb, p.kex_ab, p.lambda_i_a, p.rho_i_a,
                      RAdd(omega_a, j),
                      RAdd(p.lambda_i_a, p.dlambda_i_ab), p.rho_i_a,
                      RAdd(RAdd(omega_a, ShiftDifference(p)), j),
                      R(two_pi * b1_frq), << RSub(R(1), p.pb), p.pb >>))

\* w1 * line 1 + ... + wn * line n
RECURSIVE WeightedLines(_, _, _)
WeightedLines(p, b1_offset, n) ==
    IF n = 0 THEN R(0)
    ELSE RAdd(WeightedLines(p, b1_offset, n - 1),
              RMul(multiplet[n].weight, SingleLine(p, b1_offset, multiplet[n].j)))

\* C11: at every offset above the sentinel the simulated intensity is the
\* sum over the multiplet lines (j, w) of w times the single-line intensity
\* at the shifts omega_a + j and omega_a + domega_ab + j; a multiplet of one
\* line with weight 1 and shift 0 gives the single-line intensity.
C11_MultipletWeightedSum ==
    RawIsFresh =>
        \A i \in 1..Len(ret.raw) :
            ~RLe(ret.offsets[i], R(FarOffResonance)) =>
                /\ ret.raw[i] = WeightedLines(ret.params[1], ret.offsets[i],
                                              Len(multiplet))
                /\ multiplet = << [j |-> R(0), weight |-> R(1)] >> =>
                      ret.raw[i] = SingleLine(ret.params[1], ret.offsets[i], R(0))

\* C11 witness: a freshly simulated doublet whose two lines have different
\* intensities at an offset above the sentinel, so that the sum is neither
\* line alone.
C11_Witness ==
    /\ RawIsFresh
    /\ Len(multiplet) = 2
    /\ \E i \in 1..Len(ret.raw) :
          /\ ~RLe(ret.offsets[i], R(FarOffResonance))
          /\ SingleLine(ret.params[1], ret.offsets[i], multiplet[1].j)
                # SingleLine(ret.params[1], ret.offsets[i], multiplet[2].j)
          /\ ret.raw[i] # SingleLine(ret.params[1], ret.offsets[i], R(0))


\* The offset from resonance of the data point with offset b1_offset,
\* nu = (cs_i_a - carrier) * ppm_to_rads / (2 pi) - b1_offset
OffsetFromResonance(p, b1_offset) ==
    RSub(RDiv(RMul(RSub(p.cs_i_a, R(carrier)), ppm_to_rads), R(two_pi)), b1_offset)

\* The data point i lies within the exclusion half-width around resonance.
Excluded(p, i) ==
    /\ i <= Len(b1_offsets)
    /\ RLe(RAbs(OffsetFromResonance(p, b1_offsets[i])),
           RDiv(on_resonance_filter, R(2)))

\* The entries of a whose data point is not excluded, in order
RECURSIVE Retained(_, _, _)
Retained(a, p, from) ==
    IF from > Len(a) THEN <<>>
    ELSE (IF Excluded(p, from) THEN <<>> ELSE <<a[from]>>)
         \o Retained(a, p, from + 1)

\* C12: filter_points removes exactly the data points with
\* |nu| <= on_resonance_filter / 2 and retains every other point; with the
\* default width 0.0 no point off exact resonance is removed.
C12_FilterRemovesExactlyOnResonance ==
    [][ret'.op = "filter_points" =>
          /\ ret'.exc = ""
          /\ b1_offsets' = Retained(b1_offsets, ret'.params[1], 1)
          /\ val' = Retained(val, ret'.params[1], 1)
          /\ err' = Retained(err, ret'.params[1], 1)
          /\ on_resonance_filter = R(0) =>
                \A i \in 1..Len(b1_offsets) :
                    OffsetFromResonance(ret'.params[1], b1_offsets[i]) # R(0)
                        => \E k \in 1..Len(b1_offsets') :
                              b1_offsets'[k] = b1_offsets[i]]_vars


\* The three arrays have one length, entry i of each comes from one and the
\* same measured row, and the rows are in their original order.
Intact ==
    /\ constructed
    /\ Aligned
    /\ \A i \in 1..Len(b1_offsets) :
          \E r \in 1..Len(Rows) :
              Rows[r] = [b1_offset |-> b1_offsets[i], intensity |-> val[i],
                         intensity_err |-> err[i]]
    /\ \A i \in 1..(Len(b1_offsets) - 1) : RGt(b1_offsets[i + 1], b1_offsets[i])

ReturnsForSuppliedOffsets ==
    ret'.op = "calculate_profile" /\ ret'.x # <<>> /\ ret'.exc = ""

\* C14: calculate_profile(params, b1_offsets=X) returns one intensity per
\* entry of X, computed fresh for X (the memo cache is read and written for
\* the Profile's own offsets only) and multiplied by the scale factor of the
\* Profile's own stored offsets and measured data; the stored offsets,
\* values and errors are what they were before the call.
C14_SuppliedOffsetsProfile ==
    [][ReturnsForSuppliedOffsets =>
          /\ Len(ret'.v) = Len(ret'.x[1])
          /\ \E own \in {_calculate_scale(
                            _calculate_profile(ret'.params[1], b1_offsets, multiplet),
                            val, err)} :
                /\ own.exc = ""
                /\ ret'.v = Scaled(_calculate_profile(ret'.params[1], ret'.x[1],
                                                      multiplet), own.s)
          /\ ret'.neig = Diagonalizations(ret'.x[1], multiplet)
          /\ cache' = CachedProfile(cache, ret'.params[1], b1_offsets, multiplet).cache
          /\ UNCHANGED <<b1_offsets, val, err>>]_vars

=============================================================================
